---- MODULE Spec2Model ----
(***************************************************************************)
(* Model of the MCP tool dispatch layer of mcp-elasticsearch:              *)
(* ElasticsearchTools.HandleTool and its per-tool handlers, the result     *)
(* builders, the handler closure registered by registerTools, and the      *)
(* parts of ESClient whose status handling decides a tool result.          *)
(*                                                                         *)
(* Loosely typed Go values (interface{}) are records tagged with the       *)
(* dynamic Go type ("kind").  A float64 carries its value in tenths in n   *)
(* (5.0 is n = 50, 2.7 is n = 27); an int64 carries the integer itself.    *)
(* Maps and slices that the handlers pass through opaquely are identified  *)
(* by the name in s.  Texts are sequences of string pieces, so that        *)
(* fmt.Sprintf is concatenation and "contains" is a sub-sequence test.     *)
(***************************************************************************)
EXTENDS Integers, Sequences, FiniteSets, TLC

VARIABLES
    pc,           \* "idle": transport waits for a call; "done": a result is ready
    call,         \* the call envelope being served: via, name, args
    ret,          \* what the invoked function returned: result, err, aborted
    engineCalls,  \* Engine Client operations invoked on behalf of the call (spy)
    indices,      \* indices that exist in the Elasticsearch cluster
    lastDeleted,  \* index the previous call deleted successfully, "" if none
    built,        \* the last direct use of createSuccessResult: text, data, result
    cfg,          \* the Config the process runs with (NoConfig before it is loaded)
    proc,         \* position of main: boot, loaded, waiting, stopped, exited, fatal
    srv,          \* position of the goroutine running Start
    listener,     \* transport Start has opened: "none", "stdio" or "tcp"
    mux,          \* paths registered on http.DefaultServeMux
    logs,         \* lines written with log.Printf by Start, oldest first
    sigChan,      \* number of signals buffered in sigChan (capacity 1)
    serverErrChan,\* "open", "err" (one error buffered, closed) or "closed"
    startErr,     \* what Start returned
    closes,       \* number of calls of ESClient.Close
    web,          \* the last plain HTTP exchange: method, path, status, body
    fatal,        \* the message main ended the process with (log.Fatalf), <<>> if none
    selected,     \* the case main's select took, and which cases were ready then
    slots         \* the tool calls in flight under the HTTP front-end, one per caller

toolVars == <<pc, call, ret, engineCalls, indices, lastDeleted>>

lifecycle == <<cfg, proc, srv, listener, mux, logs, sigChan, serverErrChan,
               startErr, closes, web, fatal, selected>>

vars == <<pc, call, ret, engineCalls, indices, lastDeleted, built, cfg, proc, srv,
          listener, mux, logs, sigChan, serverErrChan, startErr, closes, web, fatal,
          selected, slots>>

(* ---------------------------- bounds ----------------------------------- *)

\* longest operations array given to es_bulk
MaxOps == 3

\* longest sequence given to createSuccessResult as payload
MaxItems == 2

\* tool calls that can be in flight at the same time
MaxCalls == 2

(* ------------------------ loosely typed values -------------------------- *)

Kinds == {"absent", "nil", "string", "float64", "int64", "bool", "map", "slice"}

\* a value without nested structure
Atom(kind, s, n) == [kind |-> kind, s |-> s, n |-> n]

AbsentAtom == Atom("absent", "", 0)
NilAtom == Atom("nil", "", 0)

OpKeys == {"operation", "index", "type", "id", "body"}

NoFields == [k \in OpKeys |-> AbsentAtom]

\* an element of the operations array: when it is a map, f holds its entries
Elem(kind, s, n, f) == [kind |-> kind, s |-> s, n |-> n, f |-> f]

\* a value of the argument bag; elems is filled for the operations array
Val(kind, s, n) == [kind |-> kind, s |-> s, n |-> n, elems |-> <<>>]

Absent == Val("absent", "", 0)
NilVal == Val("nil", "", 0)
Str(s) == Val("string", s, 0)
Float(tenths) == Val("float64", "", tenths)
Int64(i) == Val("int64", "", i)
Bool(s) == Val("bool", s, 0)
Map(s) == Val("map", s, 0)
Slice(s) == Val("slice", s, 0)
Ops(elems) == [kind |-> "slice", s |-> "", n |-> 0, elems |-> elems]

\* forget the nested structure of a value
AtomOf(v) == Atom(v.kind, v.s, v.n)

ArgKeys == {"index", "id", "body", "settings", "mappings", "query",
            "size", "from", "sort", "_source", "operations"}

\* Go: v, exists := args[k]
Exists(args, k) == args[k].kind # "absent"

\* Go: x, ok := args[k].(T): ok is false for an absent key and for nil
IsKind(v, kind) == v.kind = kind

\* Go: int(f) for a float64 f truncates toward zero
Trunc(tenths) == IF tenths >= 0 THEN tenths \div 10 ELSE -((-tenths) \div 10)

(* ------------------------------- texts ---------------------------------- *)

\* sub occurs in text as a run of consecutive pieces
Contains(text, sub) ==
    \E i \in 0..(Len(text) - Len(sub)) :
        \A j \in 1..Len(sub) : text[i + j] = sub[j]

\* the message of the translators for a required parameter
MissingParam(field) == <<"Missing or invalid '", field, "' parameter">>

(* --------------------------- result envelopes --------------------------- *)

\* Go values handed to createSuccessResult, tagged with their dynamic type
Payload(gotype, ref, index, exists, count, items) ==
    [gotype |-> gotype, ref |-> ref, index |-> index, exists |-> exists,
     count |-> count, items |-> items]

NilPayload == Payload("nil", "", "", FALSE, 0, <<>>)

\* a pointer to a response struct returned by the Engine Client
Response(gotype) == Payload(gotype, "engine", "", FALSE, 0, <<>>)

\* StructuredContent of a CallToolResult
NoStructured == [present |-> FALSE, wrapped |-> FALSE, data |-> NilPayload, count |-> 0]

CallToolResult(isError, text, structured) ==
    [isError |-> isError, text |-> text, structured |-> structured]

\* an error result that also carries the message as structured content
createErrorResult_WithPayload(message) ==
    CallToolResult(TRUE, <<"Error: ">> \o message,
                   [present |-> TRUE, wrapped |-> FALSE,
                    data |-> Payload("map", "error", "", FALSE, 0, <<>>), count |-> 0])

createErrorResult(message) ==
    CallToolResult(TRUE, <<"Error: ">> \o message, NoStructured)

\* a builder that wraps every payload as {data, count}
createSuccessResult_AlwaysWrapped(text, data) ==
    CallToolResult(FALSE, text,
        IF data.gotype = "nil" THEN NoStructured
        ELSE [present |-> TRUE, wrapped |-> TRUE, data |-> data,
              count |-> Len(data.items)])

\* a builder that leaves the text out when there is a payload
createSuccessResult_NoText(text, data) ==
    IF data.gotype = "nil" THEN CallToolResult(FALSE, text, NoStructured)
    ELSE CallToolResult(FALSE, <<>>,
             [present |-> TRUE, wrapped |-> data.gotype \in {"[]interface{}", "[]string"},
              data |-> data,
              count |-> IF data.gotype \in {"[]interface{}", "[]string"}
                        THEN Len(data.items) ELSE 0])

createSuccessResult(text, data) ==
    CallToolResult(FALSE, text,
        IF data.gotype = "nil" THEN NoStructured
        ELSE IF data.gotype \in {"[]interface{}", "[]string"}
             THEN [present |-> TRUE, wrapped |-> TRUE, data |-> data,
                   count |-> Len(data.items)]
             ELSE [present |-> TRUE, wrapped |-> FALSE, data |-> data, count |-> 0])

createSimpleSuccessResult(text) ==
    CallToolResult(FALSE, text, NoStructured)

(* ----------------------------- Engine Client ---------------------------- *)

IndexNames == {"idx1"}

\* what happens while one request is in flight: net = "fail" is a transport
\* error (connection refused), fault is a server-side failure, cancel is the
\* cancellation of the context the handler received from the transport
Envs == {[net |-> "ok", fault |-> FALSE, cancel |-> FALSE],
         [net |-> "ok", fault |-> TRUE, cancel |-> FALSE],
         [net |-> "fail", fault |-> FALSE, cancel |-> FALSE],
         [net |-> "ok", fault |-> FALSE, cancel |-> TRUE]}

NilErr == [isNil |-> TRUE, msg |-> <<>>]
Err(msg) == [isNil |-> FALSE, msg |-> msg]

SearchRequest(index, query, size, from, sort, source) ==
    [Index |-> index, Query |-> query, Size |-> size, From |-> from,
     Sort |-> sort, Source |-> source]

NoRequest == SearchRequest("", NilAtom, 0, 0, NilAtom, NilAtom)

BulkOperation(operation, index, type, id, body) ==
    [Operation |-> operation, Index |-> index, Type |-> type, ID |-> id, Body |-> body]

\* the zero value of the BulkOperation struct
ZeroBulkOperation == BulkOperation("", "", "", "", NilAtom)

NoBody == [settings |-> AbsentAtom, mappings |-> AbsentAtom]

\* one recorded Engine Client invocation with the arguments it received
EngineCall(op, index, id, body, cbody, req, ops) ==
    [op |-> op, index |-> index, id |-> id, body |-> body, cbody |-> cbody,
     req |-> req, ops |-> ops, status |-> 0, err |-> NilErr, resp |-> NilPayload,
     underCtx |-> TRUE, cancelled |-> FALSE, wire |-> NoRequest]

\* outcome of an Engine Client method: the error, the HTTP status the
\* cluster answered with (0 when no answer arrived), the cluster state after,
\* the response returned, whether the request was issued under the caller's
\* context, whether that context was cancelled in flight, and the search
\* request put on the wire
Outcome(err, status, idx) ==
    [err |-> err, status |-> status, indices |-> idx, resp |-> NilPayload,
     underCtx |-> TRUE, cancelled |-> FALSE, wire |-> NoRequest]

\* the spy's record of a call, completed with what the method did and returned
Seen(c, o) == [c EXCEPT !.status = o.status, !.err = o.err, !.resp = o.resp,
                        !.underCtx = o.underCtx, !.cancelled = o.cancelled,
                        !.wire = o.wire]

\* the request fails before an answer arrives: a transport failure, or the
\* context it was issued under has been cancelled
DoFails(env, underCtx) == env.net = "fail" \/ (underCtx /\ env.cancel)

\* the text of the error that req.Do returns
TransportText(env) == IF env.cancel THEN "context canceled" ELSE "transport"

\* the outcome of a method that issued its request under the caller's
\* context (underCtx) or without any context
Issued(o, env, underCtx) == [o EXCEPT !.underCtx = underCtx, !.cancelled = env.cancel]

\* status of DELETE /<index>
DeleteStatus(env, idx, index) ==
    IF env.fault THEN 500 ELSE IF index \in idx THEN 200 ELSE 404

\* status of PUT /<index>
CreateStatus(env, idx, index) ==
    IF env.fault THEN 500 ELSE IF index \in idx THEN 400 ELSE 200

\* status of HEAD /<index>
ExistsStatus(env, idx, index) ==
    IF env.fault THEN 500 ELSE IF index \in idx THEN 200 ELSE 404

\* res.IsError(): status code above 299
ResIsError(status) == status > 299

StatusText(status) == <<"elasticsearch error: ", ToString(status)>>

CreateIndex(env, idx, index) ==
    Issued(
        IF DoFails(env, TRUE)
        THEN Outcome(Err(<<"failed to create index: ", TransportText(env)>>), 0, idx)
        ELSE LET status == CreateStatus(env, idx, index) IN
             IF ResIsError(status)
             THEN Outcome(Err(StatusText(status)), status, idx)
             ELSE Outcome(NilErr, status, idx \cup {index}),
        env, TRUE)

\* a DeleteIndex for which every error status is an error
DeleteIndex_NotFoundIsError(env, idx, index) ==
    Issued(
        IF DoFails(env, TRUE)
        THEN Outcome(Err(<<"failed to delete index: ", TransportText(env)>>), 0, idx)
        ELSE LET status == DeleteStatus(env, idx, index) IN
             IF ResIsError(status)
             THEN Outcome(Err(StatusText(status)), status, idx)
             ELSE Outcome(NilErr, status, idx \ {index}),
        env, TRUE)

DeleteIndex(env, idx, index) ==
    Issued(
        IF DoFails(env, TRUE)
        THEN Outcome(Err(<<"failed to delete index: ", TransportText(env)>>), 0, idx)
        ELSE LET status == DeleteStatus(env, idx, index) IN
             IF ResIsError(status) /\ status # 404
             THEN Outcome(Err(StatusText(status)), status, idx)
             ELSE Outcome(NilErr, status, idx \ {index}),
        env, TRUE)

\* returns exists = (status = 200) and an error only for a transport failure
IndexExists(env, idx, index) ==
    Issued(
        IF DoFails(env, TRUE)
        THEN Outcome(Err(<<"failed to check index existence: ", TransportText(env)>>), 0, idx)
        ELSE Outcome(NilErr, ExistsStatus(env, idx, index), idx),
        env, TRUE)

\* a method of the Client interface that returns (response, error): a
\* transport failure or an error status yields an error, anything else the
\* decoded response; what names the operation in the error text
ClientOp(env, idx, what, gotype, underCtx) ==
    Issued(
        IF DoFails(env, underCtx)
        THEN Outcome(Err(<<what, TransportText(env)>>), 0, idx)
        ELSE IF env.fault
             THEN Outcome(Err(StatusText(500)), 500, idx)
             ELSE [Outcome(NilErr, 200, idx) EXCEPT
                       !.resp = IF gotype = "" THEN NilPayload ELSE Response(gotype)],
        env, underCtx)

\* the cluster's indices in the order the cat API lists them
IndexOrder == <<"idx1">>

\* the existing indices as the list ListIndices decodes
SeqOf(S) == SelectSeq(IndexOrder, LAMBDA x : x \in S)

\* c.client.Info(): the request is built without the context
Info(env, idx) ==
    ClientOp(env, idx, "failed to get cluster info: ", "*InfoResponse", FALSE)

\* c.client.Cluster.Health(): the request is built without the context
Health(env, idx) ==
    ClientOp(env, idx, "failed to get cluster health: ", "*HealthResponse", FALSE)

ListIndices(env, idx) ==
    LET o == ClientOp(env, idx, "failed to list indices: ", "[]IndexInfo", TRUE) IN
    IF o.err.isNil
    THEN [o EXCEPT !.resp = Payload("[]IndexInfo", "engine", "", FALSE, 0, SeqOf(idx))]
    ELSE o

Index(env, idx) ==
    ClientOp(env, idx, "failed to index document: ", "*IndexResponse", TRUE)

Get(env, idx) ==
    ClientOp(env, idx, "failed to get document: ", "*GetResponse", TRUE)

Delete(env, idx) ==
    ClientOp(env, idx, "failed to delete document: ", "", TRUE)

Update(env, idx) ==
    ClientOp(env, idx, "failed to update document: ", "", TRUE)

\* the esapi.SearchRequest that Search builds: Index, Body (the marshalled
\* Query), Size and From are set, the other fields are not
esapiSearchRequest(req) ==
    SearchRequest(req.Index, req.Query, req.Size, req.From, NilAtom, NilAtom)

Search(env, idx, req) ==
    [ClientOp(env, idx, "search failed: ", "*SearchResponse", TRUE) EXCEPT
         !.wire = esapiSearchRequest(req)]

Bulk(env, idx) ==
    ClientOp(env, idx, "bulk operation failed: ", "*BulkResponse", TRUE)

(* ------------------------------ tool handlers --------------------------- *)

\* what a handler leaves behind: its result, the Engine Client operations it
\* invoked, and the cluster state; aborted is a run-time panic
Returned(result, calls, idx) ==
    [aborted |-> FALSE, result |-> result, calls |-> calls, indices |-> idx]

Panicked(idx) ==
    [aborted |-> TRUE, result |-> CallToolResult(FALSE, <<>>, NoStructured),
     calls |-> <<>>, indices |-> idx]

\* a handler that stops in translation: no Engine Client operation
Rejected(message, idx) == Returned(createErrorResult(message), <<>>, idx)

\* a handler that does not look at the error
handleClusterInfo_IgnoresError(env, idx) ==
    LET c == EngineCall("Info", "", "", NilAtom, NoBody, NoRequest, <<>>)
        o == Info(env, idx) IN
    Returned(createSuccessResult(<<"Cluster info retrieved successfully">>, o.resp),
             <<Seen(c, o)>>, o.indices)

handleClusterInfo(env, idx) ==
    LET c == EngineCall("Info", "", "", NilAtom, NoBody, NoRequest, <<>>)
        o == Info(env, idx) IN
    IF ~o.err.isNil
    THEN Returned(createErrorResult(<<"Failed to get cluster info: ">> \o o.err.msg), <<Seen(c, o)>>, o.indices)
    ELSE Returned(createSuccessResult(<<"Cluster info retrieved successfully">>,
                                      o.resp), <<Seen(c, o)>>, o.indices)

handleClusterHealth(env, idx) ==
    LET c == EngineCall("Health", "", "", NilAtom, NoBody, NoRequest, <<>>)
        o == Health(env, idx) IN
    IF ~o.err.isNil
    THEN Returned(createErrorResult(<<"Failed to get cluster health: ">> \o o.err.msg), <<Seen(c, o)>>, o.indices)
    ELSE Returned(createSuccessResult(<<"Cluster health retrieved successfully">>,
                                      o.resp), <<Seen(c, o)>>, o.indices)

handleIndexCreate(args, env, idx) ==
    IF ~IsKind(args["index"], "string") THEN Rejected(MissingParam("index"), idx)
    ELSE
    LET index == args["index"].s
        body == [settings |-> IF Exists(args, "settings") /\ IsKind(args["settings"], "map")
                              THEN AtomOf(args["settings"]) ELSE AbsentAtom,
                 mappings |-> IF Exists(args, "mappings") /\ IsKind(args["mappings"], "map")
                              THEN AtomOf(args["mappings"]) ELSE AbsentAtom]
        c == EngineCall("CreateIndex", index, "", NilAtom, body, NoRequest, <<>>)
        o == CreateIndex(env, idx, index) IN
    IF ~o.err.isNil
    THEN Returned(createErrorResult(<<"Failed to create index: ">> \o o.err.msg), <<Seen(c, o)>>, o.indices)
    ELSE Returned(createSimpleSuccessResult(<<"Index '", index, "' created successfully">>),
                  <<Seen(c, o)>>, o.indices)

\* a handler that issues the delete a second time when it failed
handleIndexDelete_Retry(args, env, idx) ==
    IF ~IsKind(args["index"], "string") THEN Rejected(MissingParam("index"), idx)
    ELSE
    LET index == args["index"].s
        c == EngineCall("DeleteIndex", index, "", NilAtom, NoBody, NoRequest, <<>>)
        o == DeleteIndex(env, idx, index) IN
    IF ~o.err.isNil
    THEN Returned(createErrorResult(<<"Failed to delete index: ">> \o o.err.msg),
                  <<Seen(c, o), Seen(c, o)>>, o.indices)
    ELSE Returned(createSimpleSuccessResult(<<"Index '", index, "' deleted successfully">>),
                  <<Seen(c, o)>>, o.indices)

handleIndexDelete(args, env, idx) ==
    IF ~IsKind(args["index"], "string") THEN Rejected(MissingParam("index"), idx)
    ELSE
    LET index == args["index"].s
        c == EngineCall("DeleteIndex", index, "", NilAtom, NoBody, NoRequest, <<>>)
        o == DeleteIndex(env, idx, index) IN
    IF ~o.err.isNil
    THEN Returned(createErrorResult(<<"Failed to delete index: ">> \o o.err.msg), <<Seen(c, o)>>, o.indices)
    ELSE Returned(createSimpleSuccessResult(<<"Index '", index, "' deleted successfully">>),
                  <<Seen(c, o)>>, o.indices)

handleIndexExists(args, env, idx) ==
    IF ~IsKind(args["index"], "string") THEN Rejected(MissingParam("index"), idx)
    ELSE
    LET index == args["index"].s
        c == EngineCall("IndexExists", index, "", NilAtom, NoBody, NoRequest, <<>>)
        o == IndexExists(env, idx, index)
        exists == o.status = 200 IN
    IF ~o.err.isNil
    THEN Returned(createErrorResult(<<"Failed to check index existence: ">> \o o.err.msg),
                  <<Seen(c, o)>>, o.indices)
    ELSE Returned(createSuccessResult(<<"Index '", index, "' exists: ", ToString(exists)>>,
                                      Payload("map", "", index, exists, 0, <<>>)),
                  <<Seen(c, o)>>, o.indices)

handleIndexList(env, idx) ==
    LET c == EngineCall("ListIndices", "", "", NilAtom, NoBody, NoRequest, <<>>)
        o == ListIndices(env, idx)
        listed == o.resp.items IN
    IF ~o.err.isNil
    THEN Returned(createErrorResult(<<"Failed to list indices: ">> \o o.err.msg), <<Seen(c, o)>>, o.indices)
    ELSE Returned(createSuccessResult(<<"Found ", ToString(Len(listed)), " indices">>,
                                      Payload("map", "", "", FALSE, Len(listed), listed)),
                  <<Seen(c, o)>>, o.indices)

\* id, _ := args["id"].(string): the zero value "" when the assertion fails
optionalId(args) == IF IsKind(args["id"], "string") THEN args["id"].s ELSE ""

handleDocumentIndex(args, env, idx) ==
    IF ~IsKind(args["index"], "string") THEN Rejected(MissingParam("index"), idx)
    ELSE IF ~IsKind(args["body"], "map") THEN Rejected(MissingParam("body"), idx)
    ELSE
    LET index == args["index"].s
        body == AtomOf(args["body"])
        id == optionalId(args)
        c == EngineCall("Index", index, id, body, NoBody, NoRequest, <<>>)
        o == Index(env, idx) IN
    IF ~o.err.isNil
    THEN Returned(createErrorResult(<<"Failed to index document: ">> \o o.err.msg), <<Seen(c, o)>>, o.indices)
    ELSE Returned(createSuccessResult(<<"Document indexed successfully">>,
                                      o.resp), <<Seen(c, o)>>, o.indices)

handleDocumentGet(args, env, idx) ==
    IF ~IsKind(args["index"], "string") THEN Rejected(MissingParam("index"), idx)
    ELSE IF ~IsKind(args["id"], "string") THEN Rejected(MissingParam("id"), idx)
    ELSE
    LET index == args["index"].s
        id == args["id"].s
        c == EngineCall("Get", index, id, NilAtom, NoBody, NoRequest, <<>>)
        o == Get(env, idx) IN
    IF ~o.err.isNil
    THEN Returned(createErrorResult(<<"Failed to get document: ">> \o o.err.msg), <<Seen(c, o)>>, o.indices)
    ELSE Returned(createSuccessResult(<<"Document retrieved successfully">>,
                                      o.resp), <<Seen(c, o)>>, o.indices)

\* a translator that forgets to check the body
handleDocumentUpdate_NoBodyCheck(args, env, idx) ==
    IF ~IsKind(args["index"], "string") THEN Rejected(MissingParam("index"), idx)
    ELSE IF ~IsKind(args["id"], "string") THEN Rejected(MissingParam("id"), idx)
    ELSE
    LET index == args["index"].s
        id == args["id"].s
        body == AtomOf(args["body"])
        c == EngineCall("Update", index, id, body, NoBody, NoRequest, <<>>)
        o == Update(env, idx) IN
    IF ~o.err.isNil
    THEN Returned(createErrorResult(<<"Failed to update document: ">> \o o.err.msg),
                  <<Seen(c, o)>>, o.indices)
    ELSE Returned(createSimpleSuccessResult(
                      <<"Document '", id, "' updated successfully in index '", index, "'">>),
                  <<Seen(c, o)>>, o.indices)

handleDocumentUpdate(args, env, idx) ==
    IF ~IsKind(args["index"], "string") THEN Rejected(MissingParam("index"), idx)
    ELSE IF ~IsKind(args["id"], "string") THEN Rejected(MissingParam("id"), idx)
    ELSE IF ~IsKind(args["body"], "map") THEN Rejected(MissingParam("body"), idx)
    ELSE
    LET index == args["index"].s
        id == args["id"].s
        body == AtomOf(args["body"])
        c == EngineCall("Update", index, id, body, NoBody, NoRequest, <<>>)
        o == Update(env, idx) IN
    IF ~o.err.isNil
    THEN Returned(createErrorResult(<<"Failed to update document: ">> \o o.err.msg), <<Seen(c, o)>>, o.indices)
    ELSE Returned(createSimpleSuccessResult(
                      <<"Document '", id, "' updated successfully in index '", index, "'">>),
                  <<Seen(c, o)>>, o.indices)

handleDocumentDelete(args, env, idx) ==
    IF ~IsKind(args["index"], "string") THEN Rejected(MissingParam("index"), idx)
    ELSE IF ~IsKind(args["id"], "string") THEN Rejected(MissingParam("id"), idx)
    ELSE
    LET index == args["index"].s
        id == args["id"].s
        c == EngineCall("Delete", index, id, NilAtom, NoBody, NoRequest, <<>>)
        o == Delete(env, idx) IN
    IF ~o.err.isNil
    THEN Returned(createErrorResult(<<"Failed to delete document: ">> \o o.err.msg), <<Seen(c, o)>>, o.indices)
    ELSE Returned(createSimpleSuccessResult(
                      <<"Document '", id, "' deleted successfully from index '", index, "'">>),
                  <<Seen(c, o)>>, o.indices)

(* ---- es_search: translation of each argument of the bag ---- *)

\* the default query {"match_all": {}}
MatchAll == Atom("map", "match_all", 0)

DefaultSize == 10

DefaultFrom == 0

searchIndex(args) == IF IsKind(args["index"], "string") THEN args["index"].s ELSE ""

searchQuery(args) ==
    IF Exists(args, "query") /\ IsKind(args["query"], "map")
    THEN AtomOf(args["query"]) ELSE MatchAll

\* a size that starts from the zero value instead of the default
searchSize_NoDefault(args) ==
    IF Exists(args, "size") /\ IsKind(args["size"], "float64")
    THEN Trunc(args["size"].n) ELSE 0

\* accepted when the value is a float64
searchSize(args) ==
    IF Exists(args, "size") /\ IsKind(args["size"], "float64")
    THEN Trunc(args["size"].n) ELSE DefaultSize

\* accepted when the value is an int64
searchFrom(args) ==
    IF Exists(args, "from") /\ IsKind(args["from"], "int64")
    THEN args["from"].n ELSE DefaultFrom

\* a sort taken as it is, whatever its shape
searchSort_AnyShape(args) ==
    IF Exists(args, "sort") THEN AtomOf(args["sort"]) ELSE NilAtom

searchSort(args) ==
    IF Exists(args, "sort") /\ IsKind(args["sort"], "slice")
    THEN AtomOf(args["sort"]) ELSE NilAtom

\* any value that exists is taken as it is
searchSource(args) ==
    IF Exists(args, "_source") THEN AtomOf(args["_source"]) ELSE NilAtom

handleSearch(args, env, idx) ==
    LET searchRequest == SearchRequest(searchIndex(args), searchQuery(args),
                                       searchSize(args), searchFrom(args),
                                       searchSort(args), searchSource(args))
        c == EngineCall("Search", "", "", NilAtom, NoBody, searchRequest, <<>>)
        o == Search(env, idx, searchRequest) IN
    IF ~o.err.isNil
    THEN Returned(createErrorResult(<<"Failed to execute search: ">> \o o.err.msg), <<Seen(c, o)>>, o.indices)
    ELSE Returned(createSuccessResult(<<"Search executed successfully">>,
                                      o.resp), <<Seen(c, o)>>, o.indices)

(* ---- es_bulk ---- *)

\* the Go type json.Unmarshal needs for each key of a BulkOperation
FieldKind(k) == IF k = "body" THEN "map" ELSE "string"

\* json.Unmarshal of the marshalled map succeeds when every known key holds
\* a value of the field's type or null
unmarshalOk(f) ==
    \A k \in OpKeys : f[k].kind \in {"absent", "nil", FieldKind(k)}

stringField(f, k) == IF f[k].kind = "string" THEN f[k].s ELSE ""

\* json.Marshal(opMap) followed by json.Unmarshal into a BulkOperation
unmarshalOp(f) ==
    BulkOperation(stringField(f, "operation"), stringField(f, "index"),
                  stringField(f, "type"), stringField(f, "id"),
                  IF f["body"].kind = "map" THEN f["body"] ELSE NilAtom)

\* the element of bulkOps for one element of operations: it stays the zero
\* value when the element is not a map or cannot be unmarshalled
convertOp(op) ==
    IF op.kind = "map" /\ unmarshalOk(op.f) THEN unmarshalOp(op.f) ELSE ZeroBulkOperation

\* a conversion that fills bulkOps from the end
convertOps_Reversed(operations) ==
    [i \in 1..Len(operations) |-> convertOp(operations[Len(operations) + 1 - i])]

convertOps(operations) == [i \in 1..Len(operations) |-> convertOp(operations[i])]

handleBulk(args, env, idx) ==
    IF ~IsKind(args["operations"], "slice") THEN Rejected(MissingParam("operations"), idx)
    ELSE
    LET bulkOps == convertOps(args["operations"].elems)
        c == EngineCall("Bulk", "", "", NilAtom, NoBody, NoRequest, bulkOps)
        o == Bulk(env, idx) IN
    IF ~o.err.isNil
    THEN Returned(createErrorResult(<<"Failed to execute bulk operations: ">> \o o.err.msg),
                  <<Seen(c, o)>>, o.indices)
    ELSE Returned(createSuccessResult(<<"Bulk operations executed successfully">>,
                                      o.resp), <<Seen(c, o)>>, o.indices)

(* ------------------------------- dispatch ------------------------------- *)

\* the names of the descriptors GetTools returns, in its order
\* a catalog with a descriptor that HandleTool has no case for
GetTools_Extra == <<"es_cluster_info", "es_cluster_health", "es_index_create",
                    "es_index_delete", "es_index_exists", "es_index_list",
                    "es_document_index", "es_document_get", "es_document_update",
                    "es_document_delete", "es_search", "es_bulk", "es_reindex">>

GetTools == <<"es_cluster_info", "es_cluster_health", "es_index_create",
              "es_index_delete", "es_index_exists", "es_index_list",
              "es_document_index", "es_document_get", "es_document_update",
              "es_document_delete", "es_search", "es_bulk">>

Registered == {GetTools[i] : i \in 1..Len(GetTools)}

\* InputSchema.Required of each descriptor
\* schemas in which es_search declares index as required
Required_SearchNeedsIndex(name) ==
    CASE name \in {"es_index_create", "es_index_delete", "es_index_exists", "es_search"} -> {"index"}
      [] name = "es_document_index" -> {"index", "body"}
      [] name \in {"es_document_get", "es_document_delete"} -> {"index", "id"}
      [] name = "es_document_update" -> {"index", "id", "body"}
      [] name = "es_bulk" -> {"operations"}
      [] OTHER -> {}

Required(name) ==
    CASE name \in {"es_index_create", "es_index_delete", "es_index_exists"} -> {"index"}
      [] name = "es_document_index" -> {"index", "body"}
      [] name \in {"es_document_get", "es_document_delete"} -> {"index", "id"}
      [] name = "es_document_update" -> {"index", "id", "body"}
      [] name = "es_bulk" -> {"operations"}
      [] OTHER -> {}

\* the Go type that the schema type of a required property decodes to
PropertyKind(k) ==
    CASE k \in {"index", "id"} -> "string"
      [] k = "body" -> "map"
      [] k = "operations" -> "slice"

\* a default branch that falls back to a handler instead of rejecting
unknownTool_Fallback(toolName, env, idx) == handleClusterInfo(env, idx)

\* the default branch of the switch
unknownTool(toolName, env, idx) == Rejected(<<"Unknown tool: ", toolName>>, idx)

HandleTool(toolName, args, env, idx) ==
    CASE toolName = "es_cluster_info" -> handleClusterInfo(env, idx)
      [] toolName = "es_cluster_health" -> handleClusterHealth(env, idx)
      [] toolName = "es_index_create" -> handleIndexCreate(args, env, idx)
      [] toolName = "es_index_delete" -> handleIndexDelete(args, env, idx)
      [] toolName = "es_index_exists" -> handleIndexExists(args, env, idx)
      [] toolName = "es_index_list" -> handleIndexList(env, idx)
      [] toolName = "es_document_index" -> handleDocumentIndex(args, env, idx)
      [] toolName = "es_document_get" -> handleDocumentGet(args, env, idx)
      [] toolName = "es_document_update" -> handleDocumentUpdate(args, env, idx)
      [] toolName = "es_document_delete" -> handleDocumentDelete(args, env, idx)
      [] toolName = "es_search" -> handleSearch(args, env, idx)
      [] toolName = "es_bulk" -> handleBulk(args, env, idx)
      [] OTHER -> unknownTool(toolName, env, idx)

\* a closure that reports a failed tool call as a protocol-level error
handler_ErrorOnFailure(toolName, args, env, idx) ==
    LET out == HandleTool(toolName, args, env, idx) IN
    [aborted |-> out.aborted, resultNil |-> out.result.isError,
     errNil |-> ~out.result.isError,
     result |-> out.result, calls |-> out.calls, indices |-> out.indices]

\* the closure registerTools registers for the tool toolName: it returns
\* &result and a nil error
handler(toolName, args, env, idx) ==
    LET out == HandleTool(toolName, args, env, idx) IN
    [aborted |-> out.aborted, resultNil |-> FALSE, errNil |-> TRUE,
     result |-> out.result, calls |-> out.calls, indices |-> out.indices]

(* ----------------------------- registration ----------------------------- *)

\* the go directive of go.mod, 1.23, as major * 100 + minor
GoVersion == 123

\* since Go 1.22 every iteration of a for loop has a variable of its own
LoopVarPerIteration == GoVersion >= 122

\* what AddTool was given for one tool: the descriptor its *Tool points to
\* and the name the handler closure captured
Registration(tool, toolName) == [tool |-> tool, toolName |-> toolName]

NoRegistration == Registration("", "")

\* a loop whose closures and pointers all share the variable of the last
\* iteration
registerTools_SharedLoopVar(toolsList) ==
    [i \in 1..Len(toolsList) |->
        Registration(toolsList[Len(toolsList)], toolsList[Len(toolsList)])]

\* toolName := tool.Name is a fresh variable in each iteration; &tool points
\* to the iteration's own copy when the loop variable is per iteration
registerTools(toolsList) ==
    [i \in 1..Len(toolsList) |->
        Registration(IF LoopVarPerIteration THEN toolsList[i]
                     ELSE toolsList[Len(toolsList)],
                     toolsList[i])]

(* -------------------------------- inputs -------------------------------- *)

UnknownNames == {"nonexistent_tool", "", "search", "ES_SEARCH"}

ToolNames == Registered \cup UnknownNames

\* the values tried for each key of the argument bag
IndexValues == {Absent, Str("idx1"), Float(50)}
IdValues == {Absent, Str("doc1"), Float(50)}
ObjectValues(s) == {Absent, Map(s), Str("x")}
SizeValues == {Absent, Float(50), Float(27), Int64(5), Str("5")}
FromValues == {Absent, Float(20), Int64(2), Str("2")}
SortValues == {Absent, Slice("sort1"), Str("x")}
SourceValues == {Absent, Bool("false"), Slice("fields"), Map("includes"),
                 Float(50), Str("title")}

OpMap(operation, index, id, body) ==
    Elem("map", "", 0, [NoFields EXCEPT !["operation"] = operation, !["index"] = index,
                                        !["id"] = id, !["body"] = body])

AStr(s) == Atom("string", s, 0)
AMap(s) == Atom("map", s, 0)

\* elements tried in the operations array
ElemValues ==
    { Elem("string", "x", 0, NoFields),
      OpMap(AbsentAtom, AbsentAtom, AbsentAtom, AbsentAtom),
      OpMap(AStr("index"), AbsentAtom, AbsentAtom, AMap("doc0")),
      OpMap(AbsentAtom, AStr("idx1"), AbsentAtom, AbsentAtom),
      OpMap(AStr("index"), AStr("idx1"), AStr("doc1"), AMap("doc1")),
      OpMap(AStr("delete"), AStr("idx2"), AStr("doc2"), AbsentAtom),
      OpMap(AStr("index"), AStr("idx1"), AbsentAtom, AbsentAtom),
      OpMap(AStr("update"), AStr("idx1"), Atom("float64", "", 50), AMap("doc3")) }

RECURSIVE SeqsUpTo(_, _)
SeqsUpTo(S, n) ==
    IF n = 0 THEN {<<>>}
    ELSE LET shorter == SeqsUpTo(S, n - 1) IN
         shorter \cup {Append(q, x) : q \in {r \in shorter : Len(r) = n - 1}, x \in S}

OperationsValues == {Absent, Str("x")} \cup {Ops(q) : q \in SeqsUpTo(ElemValues, MaxOps)}

NoArgs == [k \in ArgKeys |-> Absent]

\* the keys a tool is tried with; the other keys of the bag are absent
KeysOf(name) ==
    CASE name = "es_index_create" -> {"index", "settings", "mappings"}
      [] name \in {"es_index_delete", "es_index_exists"} -> {"index"}
      [] name \in {"es_document_index", "es_document_update"} -> {"index", "id", "body"}
      [] name \in {"es_document_get", "es_document_delete"} -> {"index", "id"}
      [] name = "es_search" -> {"index", "query", "size", "from", "sort", "_source"}
      [] name = "es_bulk" -> {"operations"}
      [] OTHER -> {"index", "body"}

ValuesOf(k) ==
    CASE k = "index" -> IndexValues
      [] k = "id" -> IdValues
      [] k = "body" -> ObjectValues("doc")
      [] k = "settings" -> ObjectValues("settings")
      [] k = "mappings" -> ObjectValues("mappings")
      [] k = "query" -> ObjectValues("term")
      [] k = "size" -> SizeValues
      [] k = "from" -> FromValues
      [] k = "sort" -> SortValues
      [] k = "_source" -> SourceValues
      [] k = "operations" -> OperationsValues

Bag(index, id, body, settings, mappings, query, size, from, sort, source, operations) ==
    ("index" :> index) @@ ("id" :> id) @@ ("body" :> body) @@
    ("settings" :> settings) @@ ("mappings" :> mappings) @@ ("query" :> query) @@
    ("size" :> size) @@ ("from" :> from) @@ ("sort" :> sort) @@
    ("_source" :> source) @@ ("operations" :> operations)

\* the argument bags a call of the tool is tried with
ArgsFor(name) ==
    LET P(k) == IF k \in KeysOf(name) THEN ValuesOf(k) ELSE {Absent} IN
    {Bag(index, id, body, settings, mappings, query, size, from, sort, source, operations) :
        index \in P("index"), id \in P("id"), body \in P("body"),
        settings \in P("settings"), mappings \in P("mappings"), query \in P("query"),
        size \in P("size"), from \in P("from"), sort \in P("sort"),
        source \in P("_source"), operations \in P("operations")}

(* --------------------- configuration and transports --------------------- *)

\* a *Config: origin tells whether LoadConfig built it or a caller of package
\* server wrote it as a literal; Addresses is the number of engine addresses
Config(origin, addresses, name, protocol, port) ==
    [loaded |-> TRUE, origin |-> origin, Addresses |-> addresses, Name |-> name,
     Protocol |-> protocol, Address |-> "localhost", Port |-> port]

NoConfig ==
    [loaded |-> FALSE, origin |-> "", Addresses |-> 0, Name |-> "",
     Protocol |-> "", Address |-> "", Port |-> 0]

\* the value of an environment variable read as an integer: its text, whether
\* strconv.Atoi accepts it, and the integer it yields
EnvInt(s, ok, n) == [s |-> s, ok |-> ok, n |-> n]

getEnvString(value, defaultValue) == IF value # "" THEN value ELSE defaultValue

getEnvInt(value, defaultValue) ==
    IF value.s = "" THEN defaultValue
    ELSE IF ~value.ok THEN defaultValue
    ELSE value.n

DefaultName == "Elasticsearch MCP Server"

DefaultProtocol == "stdio"

DefaultPort == 8080

Validate_AnyProtocol(c) ==
    IF c.Addresses = 0
    THEN Err(<<"at least one Elasticsearch address must be specified">>)
    ELSE IF c.Protocol \in {"http", "sse"} /\ c.Port <= 0
    THEN Err(<<"valid port number is required for HTTP/SSE protocol">>)
    ELSE NilErr

Validate(c) ==
    IF c.Addresses = 0
    THEN Err(<<"at least one Elasticsearch address must be specified">>)
    ELSE IF c.Protocol # "stdio" /\ c.Protocol # "http" /\ c.Protocol # "sse"
    THEN Err(<<"unsupported protocol: ", c.Protocol,
               ", supported protocols: stdio, http, sse (deprecated)">>)
    ELSE IF (c.Protocol = "http" \/ c.Protocol = "sse") /\ c.Port <= 0
    THEN Err(<<"valid port number is required for HTTP/SSE protocol">>)
    ELSE NilErr

\* env: the values of ES_ADDRESSES (as a count), MCP_SERVER_NAME, MCP_PROTOCOL, MCP_PORT
LoadConfig(env) ==
    LET config == Config("LoadConfig", env.addresses,
                         getEnvString(env.name, DefaultName),
                         getEnvString(env.protocol, DefaultProtocol),
                         getEnvInt(env.port, DefaultPort))
        err == Validate(config) IN
    IF ~err.isNil
    THEN [config |-> NoConfig, err |-> Err(<<"configuration validation failed: ">> \o err.msg)]
    ELSE [config |-> config, err |-> NilErr]

\* what a start function has done when it reaches its blocking call (or
\* returns): the lines logged, the paths registered on the default mux, the
\* function left blocking ("" if none) and the error returned
Started(logged, handle, blocking, err) ==
    [logged |-> logged, handle |-> handle, blocking |-> blocking, err |-> err]

ListenAddress(c) == <<c.Address, ":", ToString(c.Port)>>

startStdioServer ==
    Started(<< <<"Starting MCP server on stdio">> >>, {}, "startStdioServer", NilErr)

startStreamableHTTP(c) ==
    Started(<< <<"HTTP server listening on ">> \o ListenAddress(c) >>,
            {"/mcp", "/health"}, "startStreamableHTTP", NilErr)

\* an event-stream transport that also registers the liveness endpoint
startSSEServer_WithHealth(c) ==
    Started(<< <<"SSE server listening on ">> \o ListenAddress(c) >>,
            {"/sse", "/health"}, "startSSEServer", NilErr)

startSSEServer(c) ==
    Started(<< <<"SSE server listening on ">> \o ListenAddress(c) >>,
            {"/sse"}, "startSSEServer", NilErr)

DeprecationWarning == <<"WARNING: SSE protocol is deprecated">>

UnsupportedProtocol(c) == <<"unsupported protocol: ", c.Protocol>>

Start(c) ==
    CASE c.Protocol = "stdio" -> startStdioServer
      [] c.Protocol = "http" -> startStreamableHTTP(c)
      [] c.Protocol = "sse" ->
             [startSSEServer(c) EXCEPT !.logged = <<DeprecationWarning>> \o @]
      [] OTHER -> Started(<< <<"ERROR: ">> \o UnsupportedProtocol(c) >>, {}, "",
                          Err(UnsupportedProtocol(c)))

\* the line a start function logs when its blocking call returns err
ServerFailed(blocking, err) ==
    << (CASE blocking = "startStdioServer" -> <<"ERROR: Stdio server failed: ">>
          [] blocking = "startStreamableHTTP" -> <<"ERROR: HTTP server failed: ">>
          [] OTHER -> <<"ERROR: SSE server failed: ">>) \o err.msg >>

\* a plain HTTP exchange
Exchange(method, path, status, body) ==
    [method |-> method, path |-> path, status |-> status, body |-> body]

NoExchange == Exchange("", "", 0, <<>>)

StatusOK == 200

StatusNotFound == 404

\* the body the liveness endpoint writes
HealthBody(server) == <<"{\"status\":\"healthy\",\"server\":\"", server, "\"}">>

\* net/http sends no body in the response to a HEAD request
Written(method, body) == IF method = "HEAD" THEN <<>> ELSE body

\* a liveness endpoint that reports the configured server name
healthHandler_ServerName(c, method) ==
    [status |-> StatusOK, body |-> Written(method, HealthBody(c.Name))]

healthHandler(c, method) ==
    [status |-> StatusOK, body |-> Written(method, HealthBody("elasticsearch-mcp"))]

\* http.DefaultServeMux for the paths that package server answers itself
ServeHTTP(registered, c, method, path) ==
    IF path = "/health" /\ path \in registered
    THEN LET r == healthHandler(c, method) IN Exchange(method, path, r.status, r.body)
    ELSE Exchange(method, path, StatusNotFound, Written(method, <<"404 page not found">>))

(* ------------------------------ state machine --------------------------- *)

NoCall == [via |-> "", name |-> "", args |-> NoArgs, tool |-> "", toolName |-> ""]

\* the goroutines net/http serves concurrent requests on
Callers == 1..MaxCalls

\* a caller with no request
NoSlot == [stage |-> "idle", name |-> "", args |-> NoArgs, env |-> "", seen |-> {},
           result |-> CallToolResult(FALSE, <<>>, NoStructured), calls |-> <<>>]

\* main has not passed its select
NoSelect == [case |-> "", sigReady |-> FALSE, errReady |-> FALSE]

\* nothing has been built yet
NoBuilt == [made |-> FALSE, text |-> <<>>, data |-> NilPayload,
            result |-> CallToolResult(FALSE, <<>>, NoStructured)]

NoReturn == [aborted |-> FALSE, resultNil |-> TRUE, errNil |-> TRUE,
             result |-> CallToolResult(FALSE, <<>>, NoStructured)]

Init ==
    /\ pc = "idle"
    /\ call = NoCall
    /\ ret = NoReturn
    /\ engineCalls = <<>>
    /\ indices = {}
    /\ lastDeleted = ""
    /\ built = NoBuilt
    /\ cfg = NoConfig
    /\ proc = "boot"
    /\ srv = "none"
    /\ listener = "none"
    /\ mux = {}
    /\ logs = <<>>
    /\ sigChan = 0
    /\ serverErrChan = "open"
    /\ startErr = NilErr
    /\ closes = 0
    /\ web = NoExchange
    /\ fatal = <<>>
    /\ selected = NoSelect
    /\ slots = [i \in Callers |-> NoSlot]

\* the function invoked for the call has returned out
Served(via, name, reg, args, out) ==
    /\ pc' = "done"
    /\ call' = [via |-> via, name |-> name, args |-> args, tool |-> reg.tool,
                toolName |-> reg.toolName]
    /\ ret' = [aborted |-> out.aborted, resultNil |-> out.resultNil,
               errNil |-> out.errNil, result |-> out.result]
    /\ engineCalls' = out.calls
    /\ indices' = out.indices
    /\ UNCHANGED <<lastDeleted, built, slots, lifecycle>>

\* the transport delivers a tools/call request to the handler registered for it
ToolCall ==
    /\ pc = "idle"
    /\ \E i \in 1..Len(GetTools) : \E args \in ArgsFor(GetTools[i]) : \E env \in Envs :
           LET reg == registerTools(GetTools)[i] IN
           Served("handler", GetTools[i], reg, args,
                  handler(reg.toolName, args, env, indices))

\* HandleTool is called with a tool name and an argument bag
Dispatch ==
    /\ pc = "idle"
    /\ \E name \in ToolNames : \E args \in ArgsFor(name) : \E env \in Envs :
           LET out == HandleTool(name, args, env, indices) IN
           Served("direct", name, NoRegistration, args,
                  [aborted |-> out.aborted, resultNil |-> FALSE, errNil |-> TRUE,
                   result |-> out.result, calls |-> out.calls, indices |-> out.indices])

\* the result is written back to the caller and the next call is awaited
Respond ==
    /\ pc = "done"
    /\ pc' = "idle"
    /\ lastDeleted' = IF /\ call.name = "es_index_delete"
                         /\ engineCalls # <<>>
                         /\ ~ret.aborted
                         /\ ~ret.result.isError
                      THEN call.args["index"].s ELSE ""
    /\ call' = NoCall
    /\ ret' = NoReturn
    /\ engineCalls' = <<>>
    /\ UNCHANGED <<indices, built, slots, lifecycle>>

Next == ToolCall \/ Dispatch \/ Respond

Spec == Init /\ [][Next]_vars

(* ---- tool calls served concurrently ---- *)

ConcurrentTools == {"es_index_create", "es_index_delete", "es_index_exists"}

ConcurrentArgs(name) ==
    {a \in ArgsFor(name) : \A k \in ArgKeys : k # "index" => a[k] = Absent}

\* a handler that reads the arguments of another call in flight
Arguments_Shared(i) == slots[(i % MaxCalls) + 1].args

\* params.Arguments of the request caller i sent
Arguments(i) == slots[i].args

\* the front-end accepts a tools/call request on a goroutine of its own
Accept(i) ==
    /\ slots[i].stage = "idle"
    /\ \E name \in ConcurrentTools : \E args \in ConcurrentArgs(name) :
           slots' = [slots EXCEPT ![i] = [NoSlot EXCEPT !.stage = "accepted",
                                                       !.name = name, !.args = args]]
    /\ UNCHANGED <<toolVars, built, lifecycle>>

\* the handler registered for the tool runs: it dispatches with the call's
\* arguments, and the Engine Client answers from the cluster as it is now
Handle(i) ==
    /\ slots[i].stage = "accepted"
    /\ \E env \in Envs :
           LET out == handler(slots[i].name, Arguments(i), env, indices) IN
           /\ slots' = [slots EXCEPT ![i] = [@ EXCEPT !.stage = "done", !.env = env,
                                                     !.seen = indices,
                                                     !.result = out.result,
                                                     !.calls = out.calls]]
           /\ indices' = out.indices
    /\ UNCHANGED <<pc, call, ret, engineCalls, lastDeleted, built, lifecycle>>

\* the result is written to the caller
Reply(i) ==
    /\ slots[i].stage = "done"
    /\ slots' = [slots EXCEPT ![i] = NoSlot]
    /\ UNCHANGED <<toolVars, built, lifecycle>>

ConcurrentNext ==
    \/ \E i \in Callers : Accept(i)
    \/ \E i \in Callers : Handle(i)
    \/ \E i \in Callers : Reply(i)

ConcurrentSpec == Init /\ [][ConcurrentNext]_vars

(* ---- the result builder on its own ---- *)

\* Go types of the payloads handed to createSuccessResult
SliceTypes == {"[]interface{}", "[]string", "[]IndexInfo", "[]map[string]interface{}"}

OtherTypes == {"map", "*SearchResponse"}

ItemValues == {"idx1", "idx2"}

BuildPayloads ==
    {NilPayload}
    \cup {Payload(t, "", "", FALSE, 0, q) : t \in SliceTypes, q \in SeqsUpTo(ItemValues, MaxItems)}
    \cup {Payload(t, "", "", FALSE, 0, <<>>) : t \in OtherTypes}

BuildTexts == {<<"ok">>, <<"Found ", "2", " indices">>, <<>>, <<"Search completed">>}

\* createSuccessResult is applied to a text and a payload
Build ==
    /\ \E text \in BuildTexts : \E data \in BuildPayloads :
           built' = [made |-> TRUE, text |-> text, data |-> data,
                     result |-> createSuccessResult(text, data)]
    /\ UNCHANGED <<toolVars, slots, lifecycle>>

BuilderNext == Build

BuilderSpec == Init /\ [][BuilderNext]_vars

(* ---- the process: main, Start and the HTTP surface ---- *)

\* values of the environment variables LoadConfig reads
Environments ==
    [addresses : {1, 2},
     name : {"", "my-es"},
     protocol : {"", "stdio", "http", "sse", "grpc", "HTTP"},
     port : {EnvInt("", FALSE, 0), EnvInt("9090", TRUE, 9090), EnvInt("0", TRUE, 0)}]

\* Config literals a caller of package server may pass to NewElasticsearchMCPServer
LiteralConfigs ==
    {Config("literal", 1, name, protocol, 9090) :
         name \in {"my-es"}, protocol \in {"stdio", "http", "sse", "grpc", ""}}

Methods == {"GET", "HEAD", "POST"}

Paths == {"/health", "/mcp", "/sse", "/"}

\* tools called through the transport while the process is observed
ServedTools == {"es_index_create", "es_index_delete"}

\* main loads the configuration; log.Fatalf ends the process on an error
MainLoadConfig ==
    /\ proc = "boot"
    /\ \E env \in Environments :
           LET r == LoadConfig(env) IN
           /\ cfg' = r.config
           /\ proc' = IF r.err.isNil THEN "loaded" ELSE "fatal"
           /\ fatal' = IF r.err.isNil THEN fatal
                       ELSE <<"FATAL: Failed to load configuration: ">> \o r.err.msg
    /\ UNCHANGED <<selected, toolVars, built, slots, srv, listener, mux, logs, sigChan, serverErrChan,
                   startErr, closes, web>>

\* main creates the server, registers for signals and launches the goroutine
\* that runs Start; log.Fatalf ends the process when the client cannot be made
MainCreateServer ==
    /\ proc = "loaded"
    /\ \E ok \in BOOLEAN :
           IF ok THEN proc' = "waiting" /\ srv' = "launched" /\ fatal' = fatal
           ELSE /\ proc' = "fatal"
                /\ srv' = srv
                /\ fatal' = <<"FATAL: Failed to create MCP server: ",
                              "failed to create Elasticsearch client: ", "cannot create client">>
    /\ UNCHANGED <<selected, toolVars, built, slots, cfg, listener, mux, logs, sigChan, serverErrChan,
                   startErr, closes, web>>

\* a caller other than main creates the server from a Config of its own
\* and calls Start
EmbedServer ==
    /\ proc = "boot"
    /\ \E c \in LiteralConfigs : cfg' = c
    /\ proc' = "embedded"
    /\ srv' = "launched"
    /\ UNCHANGED <<selected, fatal, toolVars, built, slots, listener, mux, logs, sigChan, serverErrChan,
                   startErr, closes, web>>

\* Start runs up to the blocking call of the transport, or returns
RunStart ==
    /\ srv = "launched"
    /\ proc \in {"waiting", "stopped", "embedded"}
    /\ LET r == Start(cfg) IN
       /\ logs' = logs \o r.logged
       /\ mux' = mux \cup r.handle
       /\ IF r.err.isNil
          THEN srv' = r.blocking /\ UNCHANGED startErr
          ELSE srv' = "returned" /\ startErr' = r.err
    /\ UNCHANGED <<selected, fatal, toolVars, built, slots, cfg, proc, listener, sigChan,
                   serverErrChan, closes, web>>

\* the blocking call opens the transport: the stdio streams, or a TCP
\* listener that http.ListenAndServe may fail to bind
Listen ==
    /\ srv \in {"startStdioServer", "startStreamableHTTP", "startSSEServer"}
    /\ listener = "none"
    /\ proc \in {"waiting", "stopped", "embedded"}
    /\ \E bound \in BOOLEAN :
           IF srv = "startStdioServer"
           THEN listener' = "stdio" /\ UNCHANGED <<srv, logs, startErr>>
           ELSE IF bound
           THEN listener' = "tcp" /\ UNCHANGED <<srv, logs, startErr>>
           ELSE LET err == Err(<<"listen tcp: bind">>) IN
                /\ listener' = listener
                /\ srv' = "returned"
                /\ logs' = logs \o ServerFailed(srv, err)
                /\ startErr' = err
    /\ UNCHANGED <<selected, fatal, toolVars, built, slots, cfg, proc, mux, sigChan,
                   serverErrChan, closes, web>>

\* the stdio input ends and mcpServer.Run returns, with or without an error
StdioEnds ==
    /\ srv = "startStdioServer"
    /\ listener = "stdio"
    /\ \E err \in {NilErr, Err(<<"read error">>)} :
           /\ logs' = IF err.isNil THEN logs ELSE logs \o ServerFailed(srv, err)
           /\ startErr' = err
    /\ srv' = "returned"
    /\ listener' = "none"
    /\ UNCHANGED <<selected, fatal, toolVars, built, slots, cfg, proc, mux, sigChan,
                   serverErrChan, closes, web>>

\* serverErrChan := make(chan error, 1)
ErrChanCapacity == 1

\* the send on an unbuffered channel, which needs main to be receiving
CanSend_Unbuffered == proc = "waiting"

\* the send of the goroutine proceeds when the buffer has room or main is
\* receiving in its select
CanSend ==
    \/ (IF serverErrChan = "err" THEN 1 ELSE 0) < ErrChanCapacity
    \/ proc = "waiting"

\* the goroutine main launched reports what Start returned: it sends a
\* non-nil error on serverErrChan, and the deferred close closes the channel
Report ==
    /\ srv = "returned"
    /\ cfg.origin = "LoadConfig"
    /\ proc \in {"waiting", "stopped"}
    /\ startErr.isNil \/ CanSend
    /\ serverErrChan' = IF startErr.isNil THEN "closed" ELSE "err"
    /\ srv' = "finished"
    /\ UNCHANGED <<selected, fatal, toolVars, built, slots, cfg, proc, listener, mux, logs,
                   sigChan, startErr, closes, web>>

\* SIGINT or SIGTERM is delivered to sigChan, which buffers one signal
Signal ==
    /\ proc \in {"waiting", "stopped"}
    /\ sigChan = 0
    /\ sigChan' = 1
    /\ UNCHANGED <<selected, fatal, toolVars, built, slots, cfg, proc, srv, listener, mux, logs, serverErrChan,
                   startErr, closes>>
    /\ UNCHANGED web

\* a Stop that leaves the Engine Client open
Stop_NoClose == closes

\* Stop closes the Engine Client and nothing else
Stop == closes + 1

\* main's select takes a ready case (a signal, or a value or the close of
\* serverErrChan) and calls Stop
MainShutdown ==
    /\ proc = "waiting"
    /\ \/ sigChan = 1 /\ sigChan' = 0 /\ UNCHANGED serverErrChan
          /\ selected' = [case |-> "signal", sigReady |-> TRUE,
                          errReady |-> serverErrChan # "open"]
       \/ serverErrChan # "open" /\ serverErrChan' = "closed" /\ UNCHANGED sigChan
          /\ selected' = [case |-> "serverErr", sigReady |-> sigChan = 1,
                          errReady |-> TRUE]
    /\ closes' = Stop
    /\ proc' = "stopped"
    /\ UNCHANGED <<fatal, toolVars, built, slots, cfg, srv, listener, mux, logs, startErr, web>>

\* main returns: the process and with it the transport end
MainExit ==
    /\ proc = "stopped"
    /\ proc' = "exited"
    /\ srv' = "dead"
    /\ listener' = "none"
    /\ UNCHANGED <<selected, fatal, toolVars, built, slots, cfg, mux, logs, sigChan, serverErrChan, startErr,
                   closes, web>>

\* a plain HTTP request reaches the listener; requests to the protocol
\* endpoint are the tool calls of ServeTool
HttpRequest ==
    /\ listener = "tcp"
    /\ \E method \in Methods : \E path \in Paths :
           /\ path \in mux => path = "/health"
           /\ web' = ServeHTTP(mux, cfg, method, path)
    /\ UNCHANGED <<selected, fatal, toolVars, built, slots, cfg, proc, srv, listener, mux, logs, sigChan,
                   serverErrChan, startErr, closes>>

\* a tools/call request arrives over the open transport
ServeTool ==
    /\ listener # "none"
    /\ pc = "idle"
    /\ \E i \in {j \in 1..Len(GetTools) : GetTools[j] \in ServedTools} :
       \E args \in ArgsFor(GetTools[i]) : \E env \in Envs :
           LET reg == registerTools(GetTools)[i] IN
           Served("handler", GetTools[i], reg, args,
                  handler(reg.toolName, args, env, indices))

ServerNext ==
    \/ MainLoadConfig
    \/ MainCreateServer
    \/ EmbedServer
    \/ RunStart
    \/ Listen
    \/ StdioEnds
    \/ Report
    \/ Signal
    \/ MainShutdown
    \/ MainExit
    \/ HttpRequest
    \/ ServeTool
    \/ Respond

ServerSpec == Init /\ [][ServerNext]_vars

\* the Go scheduler runs the main goroutine and the goroutine it launched
\* whenever they can take a step
FairServerSpec ==
    /\ ServerSpec
    /\ WF_vars(Report)
    /\ WF_vars(MainShutdown)
    /\ WF_vars(MainExit)

(* ------------------------------ properties ------------------------------ *)

\* the single Engine Client operation of the call, when there is exactly one
TheCall == engineCalls[1]

Done(name) == pc = "done" /\ call.name = name

\* C1: a tool name that is not registered yields, for any argument bag, an
\* error result whose text contains "Unknown tool: <name>", and no Engine
\* Client operation is invoked.
C1_UnknownToolRejected ==
    (pc = "done" /\ call.name \notin Registered) =>
        /\ ~ret.aborted
        /\ ret.result.isError
        /\ Contains(ret.result.text, <<"Unknown tool: ", call.name>>)
        /\ engineCalls = <<>>

C1_Witness ==
    /\ Done("nonexistent_tool")
    /\ call.args["index"] = Str("idx1")
    /\ ret.result.text = <<"Error: ", "Unknown tool: ", "nonexistent_tool">>

\* C2: every call delivered to a registered handler, whatever the tool, the
\* argument bag and the Engine Client outcome, ends in a non-nil result with
\* a nil protocol-level error, and the handler never aborts.
C2_HandlerAlwaysReturnsResult ==
    (pc = "done" /\ call.via = "handler") =>
        /\ ~ret.aborted
        /\ ~ret.resultNil
        /\ ret.errNil

C2_Witness ==
    /\ Done("es_document_index")
    /\ call.via = "handler"
    /\ call.args["index"].kind = "string"
    /\ call.args["body"].kind = "map"
    /\ call.args["id"].kind = "float64"
    /\ engineCalls # <<>>
    /\ TheCall.status = 0
    /\ ret.result.isError
    /\ ~ret.resultNil

\* a required field of the call that is absent or has the wrong type
BadRequired(k) == k \in Required(call.name) /\ ~IsKind(call.args[k], PropertyKind(k))

\* C3: for every tool with required arguments, a call in which a required
\* argument is absent or has the wrong type returns an error whose message
\* names a field that is actually missing or malformed, and the Engine
\* Client records zero calls.
C3_RequiredArgumentRejected ==
    (pc = "done" /\ \E k \in ArgKeys : BadRequired(k)) =>
        /\ ret.result.isError
        /\ engineCalls = <<>>
        /\ \E k \in ArgKeys :
               /\ BadRequired(k)
               /\ ret.result.text = <<"Error: ">> \o MissingParam(k)

C3_Witness ==
    /\ Done("es_document_update")
    /\ call.args["index"].kind = "string"
    /\ call.args["id"].kind = "string"
    /\ call.args["body"].kind = "string"
    /\ ret.result.text = <<"Error: ">> \o MissingParam("body")
    /\ engineCalls = <<>>

\* C4: es_search with an empty argument bag passes to Search a request with
\* Query = match_all, Size = 10, From = 0, empty Index, no Sort, no Source.
C4_SearchDefaults ==
    (Done("es_search") /\ call.args = NoArgs) =>
        /\ Len(engineCalls) = 1
        /\ TheCall.op = "Search"
        /\ TheCall.req = SearchRequest("", MatchAll, 10, 0, NilAtom, NilAtom)

C4_Witness ==
    /\ Done("es_search")
    /\ call.args = NoArgs
    /\ Len(engineCalls) = 1
    /\ ~ret.result.isError

\* C5: when size and from of es_search arrive as floating-point values, both
\* are coerced by truncation to integers in the request passed to Search.
C5_FloatCoercion ==
    (/\ Done("es_search")
     /\ call.args["size"].kind = "float64"
     /\ call.args["from"].kind = "float64") =>
        /\ Len(engineCalls) = 1
        /\ TheCall.req.Size = Trunc(call.args["size"].n)
        /\ TheCall.req.From = Trunc(call.args["from"].n)

\* an element of operations that is not an object or lacks operation or index
Malformed(op) ==
    \/ op.kind # "map"
    \/ op.f["operation"].kind # "string"
    \/ op.f["index"].kind # "string"

\* zero-based position of the first malformed element
FirstMalformed(ops) ==
    (CHOOSE i \in 1..Len(ops) :
        Malformed(ops[i]) /\ \A j \in 1..(i - 1) : ~Malformed(ops[j])) - 1

\* C6: if any element of operations of es_bulk is malformed, the call returns
\* an error that identifies the zero-based position of the first such
\* element, and Bulk is never invoked.
C6_BulkAllOrNothing ==
    (/\ Done("es_bulk")
     /\ call.args["operations"].kind = "slice"
     /\ \E i \in 1..Len(call.args["operations"].elems) :
            Malformed(call.args["operations"].elems[i])) =>
        /\ ret.result.isError
        /\ engineCalls = <<>>
        /\ Contains(ret.result.text,
                    <<ToString(FirstMalformed(call.args["operations"].elems))>>)

\* an element of operations that has the shape of a Bulk Operation
WellFormed(op) ==
    /\ op.kind = "map"
    /\ op.f["operation"].kind = "string"
    /\ op.f["index"].kind = "string"
    /\ op.f["type"].kind \in {"absent", "string"}
    /\ op.f["id"].kind \in {"absent", "string"}
    /\ op.f["body"].kind \in {"absent", "map"}

\* the operation carries kind, index, id and body of the element
Carries(bulkOp, op) ==
    /\ bulkOp.Operation = op.f["operation"].s
    /\ bulkOp.Index = op.f["index"].s
    /\ bulkOp.ID = (IF op.f["id"].kind = "string" THEN op.f["id"].s ELSE "")
    /\ bulkOp.Body = (IF op.f["body"].kind = "map" THEN op.f["body"] ELSE NilAtom)

Invoked(op) == Len(engineCalls) = 1 /\ TheCall.op = op

\* C8: an optional argument that is absent or has the wrong type is treated
\* as absent and never causes rejection: es_document_index without a string
\* id passes the empty id to Index; es_index_create with non-object settings
\* or mappings omits that key from the body; es_search with a non-string
\* index, non-object query, non-numeric size or non-array sort uses the
\* empty index, match_all, 10 and no sort.
C8_OptionalTreatedAsAbsent ==
    /\ (/\ Done("es_document_index")
        /\ call.args["index"].kind = "string"
        /\ call.args["body"].kind = "map"
        /\ call.args["id"].kind # "string") =>
           (Invoked("Index") /\ TheCall.id = "")
    /\ (Done("es_index_create") /\ call.args["index"].kind = "string") =>
           /\ Invoked("CreateIndex")
           /\ call.args["settings"].kind # "map" => TheCall.cbody.settings = AbsentAtom
           /\ call.args["mappings"].kind # "map" => TheCall.cbody.mappings = AbsentAtom
    /\ Done("es_search") =>
           /\ Invoked("Search")
           /\ call.args["index"].kind # "string" => TheCall.req.Index = ""
           /\ call.args["query"].kind # "map" => TheCall.req.Query = MatchAll
           /\ call.args["size"].kind \notin {"float64", "int64"} => TheCall.req.Size = 10
           /\ call.args["sort"].kind # "slice" => TheCall.req.Sort = NilAtom

C8_Witness ==
    /\ Done("es_search")
    /\ call.args["index"].kind = "float64"
    /\ call.args["query"].kind = "string"
    /\ call.args["size"].kind = "string"
    /\ call.args["sort"].kind = "string"
    /\ Invoked("Search")
    /\ TheCall.req.Size = 10
    /\ ~ret.result.isError

\* the three shapes the schema of _source accepts
SourceShapes == {"bool", "slice", "map"}

\* C9: the _source argument of es_search reaches the search request only
\* when it is a boolean, an array or an object; a value of any other shape
\* is treated as absent and is not placed in the request.
C9_SourceShapes ==
    Done("es_search") =>
        /\ Invoked("Search")
        /\ call.args["_source"].kind \in SourceShapes =>
               TheCall.req.Source = AtomOf(call.args["_source"])
        /\ call.args["_source"].kind \notin SourceShapes =>
               TheCall.req.Source = NilAtom

\* C10: es_index_delete returns success when the engine reports not-found
\* for the deletion, so deleting the index that the previous call deleted
\* succeeds again whenever the cluster answers the request.
C10_DeleteOfAbsentSucceeds ==
    /\ (Done("es_index_delete") /\ Len(engineCalls) = 1 /\ TheCall.status = 404) =>
           (~ret.result.isError /\ TheCall.index \notin indices)
    /\ (/\ Done("es_index_delete")
        /\ call.args["index"].kind = "string"
        /\ call.args["index"].s = lastDeleted
        /\ Len(engineCalls) = 1
        /\ TheCall.status \in {200, 404}) =>
           (TheCall.status = 404 /\ ~ret.result.isError)

C10_Witness ==
    /\ Done("es_index_delete")
    /\ lastDeleted = "idx1"
    /\ call.args["index"] = Str("idx1")
    /\ Len(engineCalls) = 1
    /\ TheCall.status = 404
    /\ ~ret.result.isError

\* the call passed translation and its Engine Client operation returned an error
EngineFailed == pc = "done" /\ Len(engineCalls) = 1 /\ ~TheCall.err.isNil

\* the call passed translation and its Engine Client operation returned no error
EngineSucceeded == pc = "done" /\ Len(engineCalls) = 1 /\ TheCall.err.isNil

\* C11: for every tool, when translation succeeds and the Engine Client
\* operation returns an error, the call returns an error result whose text
\* contains the engine's error message; the error is never returned as a
\* protocol-level error and never reported as success.
C11_EngineErrorSurfaced ==
    EngineFailed =>
        /\ ~ret.aborted
        /\ ~ret.resultNil
        /\ ret.errNil
        /\ ret.result.isError
        /\ Contains(ret.result.text, TheCall.err.msg)

C11_Witness ==
    /\ Done("es_document_get")
    /\ call.via = "handler"
    /\ EngineFailed
    /\ TheCall.status = 500
    /\ ret.result.text = <<"Error: ", "Failed to get document: ">> \o StatusText(500)

\* C12: for each of the 12 registered tools, a call with valid arguments
\* whose Engine Client operation succeeds returns a result that is not an
\* error and has a non-empty text.
C12_ValidCallSucceeds ==
    (/\ pc = "done"
     /\ call.name \in Registered
     /\ \A k \in ArgKeys : ~BadRequired(k)
     /\ EngineSucceeded) =>
        /\ ~ret.result.isError
        /\ ret.result.text # <<>>
        /\ \A i \in 1..Len(ret.result.text) : ret.result.text[i] # ""

C12_Witness ==
    /\ Done("es_bulk")
    /\ call.args["operations"].kind = "slice"
    /\ EngineSucceeded
    /\ ret.result.text = <<"Bulk operations executed successfully">>
    /\ ~ret.result.isError

\* the tools whose success result carries the engine's response
RichTools == {"es_cluster_info", "es_cluster_health", "es_document_index",
              "es_document_get", "es_search", "es_bulk"}

\* C13: for every rich-success tool, the structured payload of a successful
\* result is the Engine Client's returned response itself.
C13_PayloadIsEngineResponse ==
    (pc = "done" /\ call.name \in RichTools /\ EngineSucceeded) =>
        /\ ~ret.result.isError
        /\ TheCall.resp.gotype # "nil"
        /\ ret.result.structured.present
        /\ ~ret.result.structured.wrapped
        /\ ret.result.structured.data = TheCall.resp

C13_Witness ==
    /\ Done("es_search")
    /\ EngineSucceeded
    /\ ret.result.structured.present
    /\ ret.result.structured.data = Response("*SearchResponse")

\* the tools whose success result is a confirmation only
ConfirmOnlyTools == {"es_index_create", "es_index_delete", "es_document_update",
                     "es_document_delete"}

\* C15: in every result, an error result has no structured payload, and the
\* confirmation-only tools return no structured payload on success.
C15_PayloadOnlyOnRichSuccess ==
    pc = "done" =>
        /\ ret.result.isError => ~ret.result.structured.present
        /\ call.name \in ConfirmOnlyTools => ~ret.result.structured.present

C15_Witness ==
    /\ Done("es_document_update")
    /\ EngineSucceeded
    /\ ~ret.result.isError
    /\ ~ret.result.structured.present

\* C16: for every tool, the context the handler received is the context
\* under which the Elasticsearch request is issued, so that cancelling it
\* abandons the in-flight engine call and the tool call returns an error
\* result.
C16_ContextReachesEngine ==
    (pc = "done" /\ Len(engineCalls) = 1) =>
        /\ TheCall.underCtx
        /\ TheCall.cancelled => (~TheCall.err.isNil /\ ret.result.isError)

\* the integer a numeric argument stands for
NumberOf(v) == IF v.kind = "float64" THEN Trunc(v.n) ELSE v.n

\* C17: for es_search, each of the arguments index, query, size, from, sort
\* and _source that the caller supplies with a valid shape takes effect in
\* the request sent to Elasticsearch.
C17_SearchArgumentsSent ==
    (Done("es_search") /\ Len(engineCalls) = 1) =>
        /\ call.args["index"].kind = "string" => TheCall.wire.Index = call.args["index"].s
        /\ call.args["query"].kind = "map" => TheCall.wire.Query = AtomOf(call.args["query"])
        /\ call.args["size"].kind \in {"float64", "int64"} =>
               TheCall.wire.Size = NumberOf(call.args["size"])
        /\ call.args["from"].kind \in {"float64", "int64"} =>
               TheCall.wire.From = NumberOf(call.args["from"])
        /\ call.args["sort"].kind = "slice" => TheCall.wire.Sort = AtomOf(call.args["sort"])
        /\ call.args["_source"].kind \in SourceShapes =>
               TheCall.wire.Source = AtomOf(call.args["_source"])

Protocols == {"stdio", "http", "sse"}

\* C18: a protocol other than stdio, http or sse is a fatal startup error:
\* LoadConfig rejects it, so main ends before a server exists or a transport
\* is started; Start, when reached with such a value, returns an error
\* without starting a transport; and the protocol of a loaded configuration
\* never changes.
C18_UnsupportedProtocolIsFatal ==
    /\ [](/\ Contains(fatal, <<"unsupported protocol: ">>) =>
                (proc = "fatal" /\ ~cfg.loaded /\ srv = "none" /\ listener = "none" /\ mux = {})
          /\ cfg.origin = "LoadConfig" => cfg.Protocol \in Protocols
          /\ (cfg.loaded /\ cfg.Protocol \notin Protocols) =>
                /\ listener = "none"
                /\ mux = {}
                /\ srv \in {"launched", "returned"}
                /\ srv = "returned" => startErr = Err(UnsupportedProtocol(cfg)))
    /\ [][cfg.loaded => (cfg'.loaded /\ cfg'.Protocol = cfg.Protocol)]_vars

C18_Witness ==
    /\ proc = "fatal"
    /\ Contains(fatal, <<"unsupported protocol: ", "grpc">>)
    /\ ~cfg.loaded
    /\ srv = "none"
    /\ listener = "none"

\* line i of the log is written before line j
LoggedBefore(first, second) ==
    \E i \in 1..Len(logs) : \E j \in 1..Len(logs) :
        i < j /\ logs[i] = first /\ logs[j] = second

SseListening == <<"SSE server listening on ">> \o ListenAddress(cfg)

\* C19 as stated: under sse, Start logs the deprecation warning before the
\* listener starts, and /health is answered exactly as it is under http.
C19_SseSameSurfaceAsHttp ==
    /\ srv = "startSSEServer" => LoggedBefore(DeprecationWarning, SseListening)
    /\ (cfg.Protocol = "sse" /\ web.path = "/health") =>
           web = ServeHTTP(startStreamableHTTP(cfg).handle, cfg, web.method, web.path)

\* C19 amended: under sse, Start logs the deprecation warning before the
\* listener starts, and the only path it registers is /sse: a request to
\* /health is answered 404, whereas under http it is answered 200.
C19_SseWarnsAndServesOnlySse ==
    /\ srv = "startSSEServer" =>
           (LoggedBefore(DeprecationWarning, SseListening) /\ mux = {"/sse"})
    /\ (cfg.Protocol = "sse" /\ web.path = "/health") => web.status = StatusNotFound
    /\ (cfg.Protocol = "http" /\ web.path = "/health") => web.status = StatusOK

C19_Witness ==
    /\ cfg.origin = "LoadConfig"
    /\ cfg.Protocol = "sse"
    /\ listener = "tcp"
    /\ logs = <<DeprecationWarning, SseListening>>
    /\ web = Exchange("GET", "/health", StatusNotFound, <<"404 page not found">>)

\* C20 as stated: under http every request to /health is answered 200 with
\* the body {"status":"healthy","server":"<name>"}, <name> being the
\* server's name, whatever the method, the engine state and the tool calls.
C20_HealthReportsServerName ==
    (cfg.Protocol = "http" /\ web.path = "/health") =>
        (web.status = StatusOK /\ web.body = HealthBody(cfg.Name))

\* C20 amended: under http every request to /health is answered 200,
\* whatever the method, the engine state and the tool calls; the body is the
\* fixed text {"status":"healthy","server":"elasticsearch-mcp"}, which does
\* not depend on the configured server name, and a HEAD response has no body.
C20_HealthAnswersFixedBody ==
    (cfg.Protocol = "http" /\ web.path = "/health") =>
        /\ web.status = StatusOK
        /\ web.body = IF web.method = "HEAD" THEN <<>>
                      ELSE HealthBody("elasticsearch-mcp")

C20_Witness ==
    /\ cfg.Protocol = "http"
    /\ cfg.Name = "my-es"
    /\ listener = "tcp"
    /\ web = Exchange("POST", "/health", StatusOK, HealthBody("elasticsearch-mcp"))
    /\ pc = "done"
    /\ call.name = "es_index_create"
    /\ ret.result.isError
    /\ indices # {}

\* C21: in every execution of main that gets past server creation, the
\* Engine Client's Close is called at most once, exactly once by the time
\* main has passed its select, and only when a signal has been received or
\* Start has returned, whichever case the select takes when both are ready.
C21_ClientClosedExactlyOnce ==
    /\ [](cfg.origin = "LoadConfig" =>
             /\ closes <= 1
             /\ proc = "waiting" => closes = 0
             /\ proc \in {"stopped", "exited"} => closes = 1
             /\ closes = 1 => (selected.sigReady \/ selected.errReady))
    /\ [][closes' # closes =>
             (closes' = closes + 1 /\ (sigChan = 1 \/ srv = "finished"))]_vars

C21_Witness ==
    /\ cfg.origin = "LoadConfig"
    /\ proc = "exited"
    /\ closes = 1
    /\ selected = [case |-> "signal", sigReady |-> TRUE, errReady |-> TRUE]
    /\ ~startErr.isNil

\* C22: after Stop has returned, the Engine Client handle and every
\* transport opened by Start are released: under http or sse the listening
\* socket is closed.
C22_StopReleasesListener ==
    proc = "stopped" => (closes = 1 /\ listener = "none")

\* C23: when Start returns, with an error or without one, main eventually
\* calls Stop and terminates without a signal; the goroutine's send of the
\* error never blocks; and the return of Start changes no tool call's result.
C23_StartReturnEndsProcess ==
    /\ (cfg.origin = "LoadConfig" /\ srv = "returned") ~> (proc = "exited" /\ closes = 1)
    /\ []((cfg.origin = "LoadConfig" /\ srv = "returned") => (startErr.isNil \/ CanSend))
    /\ [][(srv' = "returned" /\ srv # "returned") => UNCHANGED <<pc, call, ret>>]_vars

C23_Witness ==
    /\ cfg.origin = "LoadConfig"
    /\ cfg.Protocol = "http"
    /\ proc = "exited"
    /\ closes = 1
    /\ startErr = Err(<<"listen tcp: bind">>)
    /\ selected = [case |-> "serverErr", sigReady |-> FALSE, errReady |-> TRUE]
    /\ sigChan = 0

\* C30: once Stop has closed the Engine Client, no Engine Client operation
\* is invoked on behalf of a tool call.
C30_NoEngineCallAfterClose ==
    [][(closes >= 1 /\ engineCalls' # engineCalls) => engineCalls' = <<>>]_vars

\* C24: the catalog has 12 descriptors with pairwise distinct names, and a
\* name is in the catalog exactly when HandleTool routes it to a handler
\* instead of answering Unknown tool.
C24_CatalogMatchesDispatcher ==
    /\ Len(GetTools) = 12
    /\ Cardinality(Registered) = Len(GetTools)
    /\ (pc = "done" /\ call.via = "direct") =>
           (call.name \in Registered <=>
                ret.result.text # <<"Error: ", "Unknown tool: ", call.name>>)

C24_Witness ==
    /\ pc = "done"
    /\ call.via = "direct"
    /\ call.name = "es_index_list"
    /\ Len(engineCalls) = 1
    /\ TheCall.op = "ListIndices"
    /\ ret.result.text = <<"Found ", "0", " indices">>

AllRequiredValid == \A k \in Required(call.name) : IsKind(call.args[k], PropertyKind(k))

SomeRequiredAbsent == \E k \in Required(call.name) : ~Exists(call.args, k)

\* C25: for every tool, a call that lacks a field its schema declares
\* required is rejected, and a call whose required fields are all valid is
\* not rejected whichever optional fields are absent.
C25_SchemaMatchesTranslator ==
    (pc = "done" /\ call.name \in Registered) =>
        /\ SomeRequiredAbsent => (ret.result.isError /\ engineCalls = <<>>)
        /\ AllRequiredValid => Len(engineCalls) = 1

C25_Witness ==
    /\ Done("es_search")
    /\ \A k \in KeysOf("es_search") : ~Exists(call.args, k)
    /\ Len(engineCalls) = 1
    /\ ~ret.result.isError

\* C26: no bulk request reaches the Engine Client with an index or update
\* operation that lacks a body object.
C26_BulkBodiesPresent ==
    Invoked("Bulk") =>
        \A i \in 1..Len(TheCall.ops) :
            TheCall.ops[i].Operation \in {"index", "update"} =>
                TheCall.ops[i].Body.kind = "map"

\* the Engine Client operation a tool stands for
OperationOf(name) ==
    CASE name = "es_cluster_info" -> "Info"
      [] name = "es_cluster_health" -> "Health"
      [] name = "es_index_create" -> "CreateIndex"
      [] name = "es_index_delete" -> "DeleteIndex"
      [] name = "es_index_exists" -> "IndexExists"
      [] name = "es_index_list" -> "ListIndices"
      [] name = "es_document_index" -> "Index"
      [] name = "es_document_get" -> "Get"
      [] name = "es_document_update" -> "Update"
      [] name = "es_document_delete" -> "Delete"
      [] name = "es_search" -> "Search"
      [] name = "es_bulk" -> "Bulk"
      [] OTHER -> ""

\* C27: a tool call invokes one Engine Client operation when its translation
\* succeeds and none otherwise, never more than one even when the engine
\* call fails, and the operation is the one its tool name stands for.
C27_OneEngineCallPerToolCall ==
    pc = "done" =>
        /\ Len(engineCalls) <= 1
        /\ Len(engineCalls) = 1 <=> (call.name \in Registered /\ AllRequiredValid)
        /\ Len(engineCalls) = 1 => TheCall.op = OperationOf(call.name)

C27_Witness ==
    /\ Done("es_index_delete")
    /\ call.args["index"] = Str("idx1")
    /\ Len(engineCalls) = 1
    /\ TheCall.op = "DeleteIndex"
    /\ TheCall.status = 500
    /\ ret.result.isError

\* C29: the handler registered for tool T calls HandleTool with the name T
\* and the arguments of the call, and is registered with T's own descriptor.
C29_HandlerDispatchesOwnTool ==
    (pc = "done" /\ call.via = "handler") =>
        /\ call.toolName = call.name
        /\ call.tool = call.name
        /\ Len(engineCalls) = 1 => TheCall.op = OperationOf(call.name)
        /\ (Len(engineCalls) = 1 /\ "index" \in Required(call.name)) =>
               TheCall.index = call.args["index"].s

C29_Witness ==
    /\ pc = "done"
    /\ call.via = "handler"
    /\ call.name = "es_cluster_info"
    /\ call.toolName = "es_cluster_info"
    /\ call.tool = "es_cluster_info"
    /\ Len(engineCalls) = 1
    /\ TheCall.op = "Info"

\* what the call in slot i gets when it is served alone and the Engine
\* Client gives it the same answer
Alone(i) == handler(slots[i].name, slots[i].args, slots[i].env, slots[i].seen)

====
